---- MODULE Spec2Model ----
(***************************************************************************)
(* vupysolr/docs.py: VuFindParser, a read-only accessor over a Solr stored *)
(* VuFind record (a dict), and VuFindMarcParser, the accessor over the     *)
(* value bound to the record's "fullrecord" key.                           *)
(*                                                                         *)
(* Python values are tagged pairs <<type, payload>>.  A text               *)
(* is a sequence of one-character strings, so that slicing, stripping and  *)
(* parsing are computed character by character.  The caller's document is  *)
(* one dict object (variable doc); the objects that can be bound to its    *)
(* "fullrecord" key live in a heap, so that rebinding the key and changing *)
(* the bound object in place are different events.                         *)
(***************************************************************************)
EXTENDS Integers, Sequences, FiniteSets, TLC

VARIABLES doc, heap, pc, argMarc, doc0, raw, fields, marc, event, mutations

vars == <<doc, heap, pc, argMarc, doc0, raw, fields, marc, event, mutations>>

----------------------------------------------------------------------------
(* Python values *)

Tag(x) == x[1]

Val(x) == x[2]

NoneV == <<"none", <<>>>>

PyStr(s) == <<"str", s>>

PyInt(n) == <<"int", n>>

PyList(s) == <<"list", s>>

PyDict(f) == <<"dict", f>>

Ref(r) == <<"ref", r>>

\* tzinfo of a datetime: none (naive), UTC, or a fixed offset in minutes
Naive == [kind |-> "naive", offset |-> 0]

UTC == [kind |-> "UTC", offset |-> 0]

TzOffset(minutes) == [kind |-> "offset", offset |-> minutes]

DateTime(y, mo, d, h, mi, s, us, tz) == <<"datetime", <<y, mo, d, h, mi, s, us, tz>>>>

Date(y, mo, d) == <<"date", <<y, mo, d>>>>

Raise(exc) == <<"raise", exc>>

\* {} (a function with no key, never the empty sequence)
EmptyDict == PyDict([k \in {} |-> NoneV])

IsRaise(x) == Tag(x) = "raise"

\* Python truthiness of a value (None, empty text, empty list, empty dict, 0 are falsy)
Truthy(x) ==
    CASE Tag(x) = "none" -> FALSE
      [] Tag(x) = "str" -> Len(Val(x)) > 0
      [] Tag(x) = "list" -> Len(Val(x)) > 0
      [] Tag(x) = "dict" -> DOMAIN Val(x) # {}
      [] Tag(x) = "int" -> Val(x) # 0
      [] OTHER -> TRUE

----------------------------------------------------------------------------
(* Field names.  The document keys of the model and their code points,     *)
(* which decide the order list.sort() puts them in.                        *)

Keys == {"first_indexed", "fullrecord", "hierarchy_parent_id", "hierarchy_top_id", "last_indexed"}

KeyCodes ==
    [k \in Keys |->
        CASE k = "first_indexed" -> <<102, 105, 114, 115, 116, 95, 105, 110, 100, 101, 120, 101, 100>>
          [] k = "fullrecord" -> <<102, 117, 108, 108, 114, 101, 99, 111, 114, 100>>
          [] k = "hierarchy_parent_id" ->
                <<104, 105, 101, 114, 97, 114, 99, 104, 121, 95, 112, 97, 114, 101, 110, 116, 95, 105, 100>>
          [] k = "hierarchy_top_id" ->
                <<104, 105, 101, 114, 97, 114, 99, 104, 121, 95, 116, 111, 112, 95, 105, 100>>
          [] k = "last_indexed" -> <<108, 97, 115, 116, 95, 105, 110, 100, 101, 120, 101, 100>>]

\* str.__lt__: a is before b when a is a proper prefix of b or the first
\* differing code point of a is the smaller one
RECURSIVE SeqLess(_, _)
SeqLess(a, b) ==
    IF Len(b) = 0 THEN FALSE
    ELSE IF Len(a) = 0 THEN TRUE
    ELSE IF Head(a) # Head(b) THEN Head(a) < Head(b)
    ELSE SeqLess(Tail(a), Tail(b))

KeyLess(a, b) == SeqLess(KeyCodes[a], KeyCodes[b])

\* list.sort() on the keys of a dict: insertion of each key into a sorted list
RECURSIVE Insert(_, _)
Insert(k, s) ==
    IF Len(s) = 0 THEN <<k>>
    ELSE IF KeyLess(k, Head(s)) THEN <<k>> \o s
    ELSE <<Head(s)>> \o Insert(k, Tail(s))

SortedReversed(S) == LET RECURSIVE Go(_)
                         Go(T) == IF T = {} THEN <<>>
                                  ELSE LET k == CHOOSE x \in T : \A y \in T : x = y \/ KeyLess(y, x)
                                       IN <<k>> \o Go(T \ {k})
                     IN Go(S)

RECURSIVE Sorted(_)
Sorted(S) ==
    IF S = {} THEN <<>>
    ELSE LET k == CHOOSE x \in S : TRUE
         IN Insert(k, Sorted(S \ {k}))

----------------------------------------------------------------------------
(* VuFindParser: lookups *)

\* _names without the ascending order of list.sort(): the keys in descending
\* order (a variant the order stated for fields must tell from _names)
NamesMutUnsorted(d) == IF Truthy(d) THEN SortedReversed(DOMAIN Val(d)) ELSE <<>>

\* VuFindParser._names with self.raw = d
_names(d) == IF Truthy(d) THEN Sorted(DOMAIN Val(d)) ELSE <<>>

\* VuFindParser._field with self.raw = d
_field(d, name) ==
    IF Truthy(d) /\ name \in DOMAIN Val(d) THEN Val(d)[name] ELSE NoneV

\* VuFindParser.get
get(d, name) == _field(d, name)

\* The named properties of the model and the key each one reads
Props == {"first_indexed", "fullrecord", "hierarchy_parent_id", "hierarchy_top_id", "last_indexed"}

PropKey(p) ==
    CASE p = "first_indexed" -> "first_indexed"
      [] p = "fullrecord" -> "fullrecord"
      [] p = "hierarchy_top_id" -> "hierarchy_top_id"
      [] p = "hierarchy_parent_id" -> "hierarchy_top_id"
      [] p = "last_indexed" -> "last_indexed"

Property(d, p) == _field(d, PropKey(p))

----------------------------------------------------------------------------
(* Texts *)

Digits == {"0", "1", "2", "3", "4", "5", "6", "7", "8", "9"}

DigitVal == [c \in Digits |->
    CASE c = "0" -> 0 [] c = "1" -> 1 [] c = "2" -> 2 [] c = "3" -> 3 [] c = "4" -> 4
      [] c = "5" -> 5 [] c = "6" -> 6 [] c = "7" -> 7 [] c = "8" -> 8 [] c = "9" -> 9]

DigitChar == <<"0", "1", "2", "3", "4", "5", "6", "7", "8", "9">>

Whitespace == {" ", "\t", "\n", "\r"}

Min(a, b) == IF a < b THEN a ELSE b

\* F(v), with v evaluated once
Bind(v, F(_)) == CHOOSE r \in {F(x) : x \in {v}} : TRUE

\* s[:n]
Take(s, n) == SubSeq(s, 1, Min(n, Len(s)))

\* s[i:] with i a 1-based position
From(s, i) == SubSeq(s, i, Len(s))

\* str.strip()
RECURSIVE LStrip(_)
LStrip(s) == IF Len(s) > 0 /\ Head(s) \in Whitespace THEN LStrip(Tail(s)) ELSE s

RECURSIVE RStrip(_)
RStrip(s) ==
    IF Len(s) > 0 /\ s[Len(s)] \in Whitespace THEN RStrip(SubSeq(s, 1, Len(s) - 1)) ELSE s

Strip(s) == RStrip(LStrip(s))

\* needle in hay, for two texts
Contains(needle, hay) ==
    \E i \in 1..(Len(hay) - Len(needle) + 1) : SubSeq(hay, i, i + Len(needle) - 1) = needle

AllDigits(s) == \A i \in 1..Len(s) : s[i] \in Digits

\* int() of a text of decimal digits, surrounding whitespace ignored as int() does
RECURSIVE DigitsValue(_)
DigitsValue(s) ==
    IF Len(s) = 0 THEN 0 ELSE 10 * DigitsValue(SubSeq(s, 1, Len(s) - 1)) + DigitVal[s[Len(s)]]

IntOf(s) == DigitsValue(Strip(s))

\* "%02d" % n and "%04d" % n
Pad2(n) == <<DigitChar[((n \div 10) % 10) + 1], DigitChar[(n % 10) + 1]>>

Pad4(n) == Pad2(n \div 100) \o Pad2(n % 100)

----------------------------------------------------------------------------
(* Calendar: what datetime.date and datetime.datetime accept *)

IsLeap(y) == y % 4 = 0 /\ (y % 100 # 0 \/ y % 400 = 0)

DaysInMonth(y, mo) ==
    IF mo = 2 THEN (IF IsLeap(y) THEN 29 ELSE 28)
    ELSE IF mo \in {4, 6, 9, 11} THEN 30 ELSE 31

MaxYear == 9999

ValidDate(y, mo, d) ==
    /\ y >= 1 /\ y <= MaxYear
    /\ mo >= 1 /\ mo <= 12
    /\ d >= 1 /\ d <= DaysInMonth(y, mo)

ValidTime(h, mi, s) == h \in 0..23 /\ mi \in 0..59 /\ s \in 0..59

----------------------------------------------------------------------------
(* datetime.datetime.strptime: the format is compiled to a regular         *)
(* expression whose groups are alternatives tried in order, the text must  *)
(* match it from its start and nothing may remain after the match.         *)

\* The alternatives of each directive, each a sequence of character classes
Alts(dir) ==
    CASE dir = "Y" -> << <<Digits, Digits, Digits, Digits>> >>
      [] dir = "y" -> << <<Digits, Digits>> >>
      [] dir = "m" -> << <<{"1"}, {"0", "1", "2"}>>, <<{"0"}, Digits \ {"0"}>>, <<Digits \ {"0"}>> >>
      [] dir = "d" -> << <<{"3"}, {"0", "1"}>>, <<{"1", "2"}, Digits>>, <<{"0"}, Digits \ {"0"}>>,
                         <<Digits \ {"0"}>>, <<{" "}, Digits \ {"0"}>> >>
      [] dir = "H" -> << <<{"2"}, {"0", "1", "2", "3"}>>, <<{"0", "1"}, Digits>>, <<Digits>> >>
      [] dir = "M" -> << <<{"0", "1", "2", "3", "4", "5"}, Digits>>, <<Digits>> >>
      [] dir = "S" -> << <<{"6"}, {"0", "1"}>>, <<{"0", "1", "2", "3", "4", "5"}, Digits>>, <<Digits>> >>

Directive(dir) == [lit |-> FALSE, c |-> dir]

Literal(ch) == [lit |-> TRUE, c |-> ch]

\* DT005 = "%Y%m%d%H%M%S.0"
DT005 == <<Directive("Y"), Directive("m"), Directive("d"), Directive("H"), Directive("M"),
           Directive("S"), Literal("."), Literal("0")>>

\* "%y%m%d"
FmtYYMMDD == <<Directive("y"), Directive("m"), Directive("d")>>

AltMatches(alt, s, i) ==
    /\ i + Len(alt) - 1 <= Len(s)
    /\ \A j \in 1..Len(alt) : s[i + j - 1] \in alt[j]

NoMatch == [ok |-> FALSE, end |-> 0, vals |-> <<>>]

\* re.match of the compiled format on s from position i: the first match in
\* the order a backtracking matcher finds them (alternatives left to right)
RECURSIVE Match(_, _, _), TryAlts(_, _, _, _)
Match(fmt, s, i) ==
    IF Len(fmt) = 0 THEN [ok |-> TRUE, end |-> i, vals |-> <<>>]
    ELSE IF Head(fmt).lit
         THEN IF i <= Len(s) /\ s[i] = Head(fmt).c THEN Match(Tail(fmt), s, i + 1) ELSE NoMatch
         ELSE TryAlts(Alts(Head(fmt).c), Tail(fmt), s, i)

TryAlts(alts, rest, s, i) ==
    IF Len(alts) = 0 THEN NoMatch
    ELSE LET alt == Head(alts)
             m == Match(rest, s, i + Len(alt))
         IN IF AltMatches(alt, s, i) /\ m.ok
            THEN [ok |-> TRUE, end |-> m.end,
                  vals |-> <<IntOf(SubSeq(s, i, i + Len(alt) - 1))>> \o m.vals]
            ELSE TryAlts(Tail(alts), rest, s, i)

\* _strptime: the groups of the match, or ValueError when the text does not
\* match or data remains unconverted
StrptimeGroups(s, fmt) ==
    LET m == Match(fmt, s, 1)
    IN IF m.ok /\ m.end = Len(s) + 1 THEN m ELSE NoMatch

\* %y: values 69-99 are 1969-1999, values 0-68 are 2000-2068
PivotYearLimit == 68

Century(yy) == IF yy <= PivotYearLimit THEN 2000 + yy ELSE 1900 + yy

\* datetime.datetime.strptime(x, DT005); a text of a datetime is naive
Strptime005(x) ==
    IF Tag(x) # "str" THEN Raise("TypeError")
    ELSE LET m == StrptimeGroups(Val(x), DT005)
         IN IF m.ok /\ ValidDate(m.vals[1], m.vals[2], m.vals[3])
                    /\ ValidTime(m.vals[4], m.vals[5], m.vals[6])
            THEN DateTime(m.vals[1], m.vals[2], m.vals[3], m.vals[4], m.vals[5], m.vals[6], 0, Naive)
            ELSE Raise("ValueError")

\* datetime.datetime.strptime(x, "%y%m%d").date()
StrptimeYYMMDD(x) ==
    IF Tag(x) # "str" THEN Raise("TypeError")
    ELSE LET m == StrptimeGroups(Val(x), FmtYYMMDD)
         IN IF m.ok /\ ValidDate(Century(m.vals[1]), m.vals[2], m.vals[3])
            THEN Date(Century(m.vals[1]), m.vals[2], m.vals[3])
            ELSE Raise("ValueError")

\* date.isoformat(), and datetime.isoformat() of a naive datetime without
\* microseconds (what strptime with DT005 returns)
IsoFormat(x) ==
    IF Tag(x) = "date"
    THEN PyStr(Pad4(Val(x)[1]) \o <<"-">> \o Pad2(Val(x)[2]) \o <<"-">> \o Pad2(Val(x)[3]))
    ELSE PyStr(Pad4(Val(x)[1]) \o <<"-">> \o Pad2(Val(x)[2]) \o <<"-">> \o Pad2(Val(x)[3]) \o <<"T">>
               \o Pad2(Val(x)[4]) \o <<":">> \o Pad2(Val(x)[5]) \o <<":">> \o Pad2(Val(x)[6]))

----------------------------------------------------------------------------
(* dateutil.parser.isoparse (dateutil/parser/isoparser.py), the parser the *)
(* index timestamps go through.  Positions are 0-based as in the library.  *)

\* s[a:b]
Slice(s, a, b) == SubSeq(s, a + 1, Min(b, Len(s)))

\* s[a:a+1] = ch
CharAt(s, a, ch) == a < Len(s) /\ s[a + 1] = ch

BadInt == [ok |-> FALSE, val |-> 0]

\* int(b): surrounding whitespace, one sign, digits with single underscores
\* between them; anything else is a ValueError
IntParse(b) ==
    LET t == Strip(b)
        signed == Len(t) > 0 /\ t[1] \in {"+", "-"}
        body == IF signed THEN Tail(t) ELSE t
        wellFormed ==
            /\ Len(body) > 0
            /\ body[1] \in Digits /\ body[Len(body)] \in Digits
            /\ \A i \in 1..Len(body) : body[i] \in Digits \cup {"_"}
            /\ \A i \in 1..(Len(body) - 1) : ~(body[i] = "_" /\ body[i + 1] = "_")
        digits == SelectSeq(body, LAMBDA c : c \in Digits)
    IN IF ~wellFormed THEN BadInt
       ELSE [ok |-> TRUE, val |-> IF signed /\ t[1] = "-" THEN 0 - DigitsValue(digits)
                                                          ELSE DigitsValue(digits)]

\* date.toordinal() and date.fromordinal()
DaysBeforeYear(y) == (y - 1) * 365 + ((y - 1) \div 4) - ((y - 1) \div 100) + ((y - 1) \div 400)

RECURSIVE DaysBeforeMonth(_, _)
DaysBeforeMonth(y, mo) == IF mo = 1 THEN 0 ELSE DaysBeforeMonth(y, mo - 1) + DaysInMonth(y, mo - 1)

ToOrdinal(y, mo, d) == DaysBeforeYear(y) + DaysBeforeMonth(y, mo) + d

MaxOrdinal == 3652059

FromOrdinal(n) ==
    LET y == CHOOSE yy \in 1..MaxYear : DaysBeforeYear(yy) < n /\ n <= DaysBeforeYear(yy + 1)
        r == n - DaysBeforeYear(y)
        mo == CHOOSE mm \in 1..12 :
                 DaysBeforeMonth(y, mm) < r /\ r <= DaysBeforeMonth(y, mm) + DaysInMonth(y, mm)
    IN <<y, mo, r - DaysBeforeMonth(y, mo)>>

\* date.isocalendar()[2]: Monday is 1
IsoWeekday(y, mo, d) == ((ToOrdinal(y, mo, d) + 6) % 7) + 1

BadDate == [ok |-> FALSE, y |-> 0, mo |-> 0, d |-> 0, pos |-> 0, exc |-> "ValueError"]

\* date + timedelta past date.max
DateOverflow == [BadDate EXCEPT !.exc = "OverflowError"]

GoodDate(y, mo, d, pos) == [ok |-> TRUE, y |-> y, mo |-> mo, d |-> d, pos |-> pos, exc |-> ""]

\* isoparser._parse_isodate_common: YYYY, YYYY-MM, YYYY-MM-DD, YYYYMMDD
ParseIsodateCommon(s) ==
    LET n == Len(s)
        year == IntParse(Slice(s, 0, 4))
        hasSep == CharAt(s, 4, "-")
        p1 == IF hasSep THEN 5 ELSE 4
        month == IntParse(Slice(s, p1, p1 + 2))
        p2 == p1 + 2
        p3 == IF hasSep THEN p2 + 1 ELSE p2
        day == IntParse(Slice(s, p3, p3 + 2))
    IN IF n < 4 \/ ~year.ok THEN BadDate
       ELSE IF 4 >= n THEN GoodDate(year.val, 1, 1, 4)
       ELSE IF n - p1 < 2 \/ ~month.ok THEN BadDate
       ELSE IF p2 >= n THEN (IF hasSep THEN GoodDate(year.val, month.val, 1, p2) ELSE BadDate)
       ELSE IF hasSep /\ ~CharAt(s, p2, "-") THEN BadDate
       ELSE IF n - p3 < 2 \/ ~day.ok THEN BadDate
       ELSE GoodDate(year.val, month.val, day.val, p3 + 2)

\* isoparser._calculate_weekdate
WeekDate(year, week, day, pos) ==
    IF ~(0 < week /\ week < 54) \/ ~(0 < day /\ day < 8) \/ year < 1 \/ year > MaxYear
    THEN BadDate
    ELSE LET week1 == ToOrdinal(year, 1, 4) - (IsoWeekday(year, 1, 4) - 1)
             ord == week1 + (week - 1) * 7 + (day - 1)
         IN IF ord < 1 \/ ord > MaxOrdinal THEN DateOverflow
            ELSE LET ymd == FromOrdinal(ord) IN GoodDate(ymd[1], ymd[2], ymd[3], pos)

\* isoparser._parse_isodate_uncommon: YYYY-Www, YYYYWww, YYYY-Www-D, YYYYWwwD,
\* YYYY-DDD, YYYYDDD
ParseIsodateUncommon(s) ==
    LET n == Len(s)
        year == IntParse(Slice(s, 0, 4))
        hasSep == CharAt(s, 4, "-")
        p0 == IF hasSep THEN 5 ELSE 4
        weekno == IntParse(Slice(s, p0 + 1, p0 + 3))
        pw == p0 + 3
        pd == IF hasSep THEN pw + 1 ELSE pw
        dayno == IntParse(Slice(s, pd, pd + 1))
        ordinal == IntParse(Slice(s, p0, p0 + 3))
    IN IF n < 4 \/ ~year.ok THEN BadDate
       ELSE IF CharAt(s, p0, "W")
            THEN IF ~weekno.ok THEN BadDate
                 ELSE IF n > pw
                      THEN IF CharAt(s, pw, "-") # hasSep \/ ~dayno.ok THEN BadDate
                           ELSE WeekDate(year.val, weekno.val, dayno.val, pd + 1)
                      ELSE WeekDate(year.val, weekno.val, 1, pw)
            ELSE IF n - p0 < 3 \/ ~ordinal.ok THEN BadDate
                 ELSE IF ordinal.val < 1 \/ ordinal.val > (IF IsLeap(year.val) THEN 366 ELSE 365)
                           \/ year.val < 1 \/ year.val > MaxYear
                      THEN BadDate
                      ELSE LET ymd == FromOrdinal(ToOrdinal(year.val, 1, 1) + ordinal.val - 1)
                           IN GoodDate(ymd[1], ymd[2], ymd[3], p0 + 3)

\* isoparser._parse_isodate
ParseIsodate(s) ==
    LET OrUncommon(common) == IF common.ok THEN common ELSE ParseIsodateUncommon(s)
    IN Bind(ParseIsodateCommon(s), OrUncommon)

BadTz == [ok |-> FALSE, tz |-> Naive]

\* isoparser._parse_tzstr: Z, +HH, +HHMM, +HH:MM (or with -)
ParseTzstr(z) ==
    LET hours == IntParse(Slice(z, 1, 3))
        minutes == IF Len(z) = 3 THEN [ok |-> TRUE, val |-> 0]
                   ELSE IntParse(Slice(z, IF CharAt(z, 3, ":") THEN 4 ELSE 3, Len(z)))
        mult == IF z[1] = "-" THEN 0 - 1 ELSE 1
    IN IF z = <<"Z">> \/ z = <<"z">> THEN [ok |-> TRUE, tz |-> UTC]
       ELSE IF Len(z) \notin {3, 5, 6} \/ z[1] \notin {"-", "+"} THEN BadTz
       ELSE IF ~hours.ok \/ ~minutes.ok THEN BadTz
       ELSE IF hours.val = 0 /\ minutes.val = 0 THEN [ok |-> TRUE, tz |-> UTC]
       ELSE IF minutes.val > 59 \/ hours.val > 23 THEN BadTz
       ELSE [ok |-> TRUE, tz |-> TzOffset(mult * (hours.val * 60 + minutes.val))]

BadTime == [ok |-> FALSE, c |-> <<0, 0, 0, 0>>, tz |-> Naive]

\* The fraction of a second at position pos: "." or "," and a run of digits,
\* as its length (0 when there is none)
RECURSIVE DigitRun(_, _)
DigitRun(s, pos) == IF pos < Len(s) /\ s[pos + 1] \in Digits THEN 1 + DigitRun(s, pos + 1) ELSE 0

FractionLen(s, pos) ==
    IF pos < Len(s) /\ s[pos + 1] \in {".", ","} /\ DigitRun(s, pos + 1) > 0
    THEN 1 + DigitRun(s, pos + 1) ELSE 0

\* The loop of isoparser._parse_isotime: one round per component comp
RECURSIVE IsotimeLoop(_, _, _, _, _)
IsotimeLoop(s, pos, comp0, hasSep, c) ==
    IF ~(pos < Len(s) /\ comp0 < 5) THEN [ok |-> pos >= Len(s), c |-> c, tz |-> Naive]
    ELSE LET comp == comp0 + 1
             sepHere == comp = 1 /\ CharAt(s, pos, ":")
             sepDue == comp = 2 /\ hasSep
             p == IF sepHere \/ sepDue THEN pos + 1 ELSE pos
             num == IntParse(Slice(s, p, p + 2))
             fl == FractionLen(s, p)
             usText == Take(Slice(s, p + 1, p + fl), 6)
         IN IF s[pos + 1] \in {"-", "+", "Z", "z"}
            THEN LET z == ParseTzstr(From(s, pos + 1)) IN [ok |-> z.ok, c |-> c, tz |-> z.tz]
            ELSE IF ~sepHere /\ sepDue /\ ~CharAt(s, pos, ":") THEN BadTime
            ELSE IF comp < 3
                 THEN IF ~num.ok THEN BadTime
                      ELSE IsotimeLoop(s, p + 2, comp, hasSep \/ sepHere, [c EXCEPT ![comp + 1] = num.val])
            ELSE IF comp = 3 /\ fl > 0
                 THEN IsotimeLoop(s, p + fl, comp, hasSep,
                                  [c EXCEPT ![4] = DigitsValue(usText) * 10 ^ (6 - Len(usText))])
            ELSE IsotimeLoop(s, p, comp, hasSep, c)

\* isoparser._parse_isotime
ParseIsotime(s) ==
    LET Checked(r) ==
            IF Len(s) < 2 \/ ~r.ok THEN BadTime
            ELSE IF r.c[1] = 24 /\ (r.c[2] # 0 \/ r.c[3] # 0 \/ r.c[4] # 0) THEN BadTime
            ELSE r
    IN Bind(IsotimeLoop(s, 0, 0 - 1, FALSE, <<0, 0, 0, 0>>), Checked)

\* datetime(*components), plus one day when the hour is 24
MakeDateTime(dt, c, tz) ==
    LET h == IF c[1] = 24 THEN 0 ELSE c[1]
    IN IF ~(ValidDate(dt.y, dt.mo, dt.d) /\ ValidTime(h, c[2], c[3])) THEN Raise("ValueError")
       ELSE IF c[1] # 24 THEN DateTime(dt.y, dt.mo, dt.d, h, c[2], c[3], c[4], tz)
       ELSE IF ToOrdinal(dt.y, dt.mo, dt.d) + 1 > MaxOrdinal THEN Raise("OverflowError")
       ELSE LET ymd == FromOrdinal(ToOrdinal(dt.y, dt.mo, dt.d) + 1)
            IN DateTime(ymd[1], ymd[2], ymd[3], 0, c[2], c[3], c[4], tz)

\* dateutil.parser.isoparse(x).  A text (ASCII) is parsed, a malformed one
\* is a ValueError.  Of another value the parser first takes len(): a list
\* shorter than 4 is a ValueError ("ISO string too short"), a longer one and
\* an int are a TypeError.
isoparse(x) ==
    LET WithTime(dt, tm) ==
            IF ~tm.ok THEN Raise("ValueError") ELSE MakeDateTime(dt, tm.c, tm.tz)
        WithDate(dt) ==
            IF ~dt.ok THEN Raise(dt.exc)
            ELSE IF Len(Val(x)) > dt.pos
                 THEN Bind(ParseIsotime(From(Val(x), dt.pos + 2)), LAMBDA tm : WithTime(dt, tm))
                 ELSE MakeDateTime(dt, <<0, 0, 0, 0>>, Naive)
    IN IF Tag(x) = "list" THEN (IF Len(Val(x)) < 4 THEN Raise("ValueError") ELSE Raise("TypeError"))
       ELSE IF Tag(x) # "str" THEN Raise("TypeError")
       ELSE Bind(ParseIsodate(Val(x)), WithDate)

----------------------------------------------------------------------------
(* VuFindParser: derived datetime accessors *)

\* last_indexed_datetime with the parse error caught, as the MARC date
\* properties catch theirs (a variant the strict path must tell from the code)
LastIndexedDatetimeMutLenient(d) ==
    LET timestamp == Property(d, "last_indexed")
    IN IF Truthy(timestamp) /\ ~IsRaise(isoparse(timestamp)) THEN isoparse(timestamp) ELSE NoneV

\* VuFindParser.last_indexed_datetime
last_indexed_datetime(d) ==
    LET timestamp == Property(d, "last_indexed")
    IN IF Truthy(timestamp) THEN isoparse(timestamp) ELSE NoneV

\* VuFindParser.first_indexed_datetime (reads last_indexed)
first_indexed_datetime(d) ==
    LET timestamp == Property(d, "last_indexed")
    IN IF Truthy(timestamp) THEN isoparse(timestamp) ELSE NoneV

----------------------------------------------------------------------------
(* VuFindMarcParser.  fr is the value self.fullrecord refers to (None when *)
(* the document had no "fullrecord" key).  A result is a value or          *)
(* Raise(exception) when the evaluation ends in an uncaught exception.     *)

\* The keys of the dicts nested in a fullrecord, and their characters
Tags == {"fields", "leader", "001", "005", "008"}

TagChars ==
    [k \in Tags |->
        CASE k = "fields" -> <<"f", "i", "e", "l", "d", "s">>
          [] k = "leader" -> <<"l", "e", "a", "d", "e", "r">>
          [] k = "001" -> <<"0", "0", "1">>
          [] k = "005" -> <<"0", "0", "5">>
          [] k = "008" -> <<"0", "0", "8">>]

\* VuFindMarcParser.fields
MarcFields(fr) ==
    IF Tag(fr) # "none" /\ Tag(fr) = "dict"
    THEN (IF "fields" \in DOMAIN Val(fr) THEN Val(fr)["fields"] ELSE NoneV)
    ELSE NoneV

\* for field in x: the elements a value yields when iterated (a list its
\* elements, a text its characters, a dict its keys), when it is iterable
Iterable(x) == Tag(x) \in {"list", "str", "dict"}

SetToSeq(S) == LET RECURSIVE Go(_)
                   Go(T) == IF T = {} THEN <<>>
                            ELSE LET k == CHOOSE e \in T : TRUE IN <<k>> \o Go(T \ {k})
               IN Go(S)

Elements(x) ==
    CASE Tag(x) = "list" -> Val(x)
      [] Tag(x) = "str" -> [i \in 1..Len(Val(x)) |-> PyStr(<<Val(x)[i]>>)]
      [] Tag(x) = "dict" -> LET ks == SetToSeq(DOMAIN Val(x))
                         IN [i \in 1..Len(ks) |-> PyStr(TagChars[ks[i]])]

\* tag in e: key membership in a dict, substring in a text, element of a
\* list; a TypeError for None and int
SupportsIn(e) == Tag(e) \in {"dict", "str", "list"}

In(tag, e) ==
    CASE Tag(e) = "dict" -> tag \in DOMAIN Val(e)
      [] Tag(e) = "str" -> Contains(TagChars[tag], Val(e))
      [] Tag(e) = "list" -> \E i \in 1..Len(Val(e)) : Val(e)[i] = PyStr(TagChars[tag])
      [] OTHER -> FALSE

\* e[tag]: the value of a dict; a TypeError for a text or a list
Subscript(e, tag) == IF Tag(e) = "dict" THEN Val(e)[tag] ELSE Raise("TypeError")

NotFound == [found |-> FALSE, val |-> NoneV]

Found(x) == [found |-> TRUE, val |-> x]

\* The loop without its return at the first match: the last element with the
\* tag wins (a variant the first-match rule must tell from the code)
RECURSIVE ScanMutLast(_, _)
ScanMutLast(elems, tag) ==
    IF Len(elems) = 0 THEN NotFound
    ELSE IF ~SupportsIn(Head(elems)) THEN Found(Raise("TypeError"))
    ELSE IF ScanMutLast(Tail(elems), tag).found THEN ScanMutLast(Tail(elems), tag)
    ELSE IF In(tag, Head(elems)) THEN Found(Subscript(Head(elems), tag))
    ELSE NotFound

\* for field in elems: if tag in field: return field[tag]
RECURSIVE Scan(_, _)
Scan(elems, tag) ==
    IF Len(elems) = 0 THEN NotFound
    ELSE IF ~SupportsIn(Head(elems)) THEN Found(Raise("TypeError"))
    ELSE IF In(tag, Head(elems)) THEN Found(Subscript(Head(elems), tag))
    ELSE Scan(Tail(elems), tag)

\* The loop of latest_transaction and date_entered over self.fields
ScanFields(fr, tag) ==
    LET f == MarcFields(fr)
    IN IF Tag(f) = "none" THEN NotFound
       ELSE IF ~Iterable(f) THEN Found(Raise("TypeError"))
       ELSE Scan(Elements(f), tag)

\* VuFindMarcParser.latest_transaction
latest_transaction(fr) == ScanFields(fr, "005").val

\* VuFindMarcParser.latest_transaction_datetime
latest_transaction_datetime(fr) ==
    LET latest_trans == latest_transaction(fr)
    IN IF IsRaise(latest_trans) THEN latest_trans
       ELSE IF Tag(latest_trans) # "none"
            THEN (IF Strptime005(latest_trans) = Raise("ValueError") THEN NoneV
                  ELSE Strptime005(latest_trans))
            ELSE NoneV

\* VuFindMarcParser.latest_transaction_iso
latest_transaction_iso(fr) ==
    LET latest_trans_datetime == latest_transaction_datetime(fr)
    IN IF IsRaise(latest_trans_datetime) THEN latest_trans_datetime
       ELSE IF Tag(latest_trans_datetime) # "none" THEN IsoFormat(latest_trans_datetime)
       ELSE NoneV

\* The length of the slice field["008"][:6]
DateEnteredLen == 6

\* x[:6]: of a text and of a list; a TypeError for None and int
SliceDateEntered(x) ==
    CASE Tag(x) = "str" -> PyStr(Take(Val(x), DateEnteredLen))
      [] Tag(x) = "list" -> PyList(Take(Val(x), DateEnteredLen))
      [] OTHER -> Raise("TypeError")

\* VuFindMarcParser.date_entered
date_entered(fr) ==
    LET r == ScanFields(fr, "008")
    IN IF ~r.found THEN NoneV
       ELSE IF IsRaise(r.val) THEN r.val
       ELSE SliceDateEntered(r.val)

\* The length date_entered must have after strip()
DateEnteredStripLen == 6

\* date_entered_date without the check of the stripped length (a variant
\* the length rule must tell from the code)
DateEnteredDateMutNoLengthCheck(fr) ==
    LET de == date_entered(fr)
    IN IF IsRaise(de) THEN de
       ELSE IF Tag(de) = "none" THEN NoneV
       ELSE IF Tag(de) # "str" THEN Raise("AttributeError")
       ELSE IF StrptimeYYMMDD(de) = Raise("ValueError") THEN NoneV ELSE StrptimeYYMMDD(de)

\* VuFindMarcParser.date_entered_date
date_entered_date(fr) ==
    LET de == date_entered(fr)
    IN IF IsRaise(de) THEN de
       ELSE IF Tag(de) = "none" THEN NoneV
       ELSE IF Tag(de) # "str" THEN Raise("AttributeError")
       ELSE IF Len(Strip(Val(de))) = DateEnteredStripLen
            THEN (IF StrptimeYYMMDD(de) = Raise("ValueError") THEN NoneV ELSE StrptimeYYMMDD(de))
            ELSE NoneV

\* VuFindMarcParser.date_entered_iso
date_entered_iso(fr) ==
    LET d == date_entered_date(fr)
    IN IF IsRaise(d) THEN d
       ELSE IF Tag(d) # "none" THEN IsoFormat(d)
       ELSE NoneV

MarcOps == {"latest_transaction", "latest_transaction_datetime", "latest_transaction_iso",
            "date_entered", "date_entered_date", "date_entered_iso"}

\* The property op of a VuFindMarcParser whose fullrecord refers to fr
MarcProperty(op, fr) ==
    CASE op = "latest_transaction" -> latest_transaction(fr)
      [] op = "latest_transaction_datetime" -> latest_transaction_datetime(fr)
      [] op = "latest_transaction_iso" -> latest_transaction_iso(fr)
      [] op = "date_entered" -> date_entered(fr)
      [] op = "date_entered_date" -> date_entered_date(fr)
      [] op = "date_entered_iso" -> date_entered_iso(fr)

----------------------------------------------------------------------------
(* The documents and fullrecord values of the model *)

\* Values of the index timestamp fields
TxtIsoUtc == PyStr(<<"2", "0", "2", "3", "-", "0", "5", "-", "0", "1", "T", "1", "2", ":", "0", "0", ":", "0", "0", "Z">>)

TxtIsoOffset == PyStr(<<"2", "0", "2", "3", "-", "0", "5", "-", "0", "1", "T", "1", "4", ":", "0", "0", ":", "0", "0", ".", "5", "+", "0", "2", ":", "0", "0">>)

TxtIsoFirst == PyStr(<<"2", "0", "2", "0", "-", "0", "1", "-", "0", "1", "T", "0", "0", ":", "0", "0", ":", "0", "0", "Z">>)

TxtNotADate == PyStr(<<"n", "o", "t", "-", "a", "-", "d", "a", "t", "e">>)

TxtEmpty == PyStr(<<>>)

\* Values of the MARC control fields 005 and 008
Txt005 == PyStr(<<"2", "0", "2", "3", "0", "5", "0", "1", "1", "2", "3", "0", "4", "5", ".", "0">>)

Txt005Other == PyStr(<<"1", "9", "9", "9", "1", "2", "3", "1", "2", "3", "5", "9", "5", "9", ".", "0">>)

Txt005Short == PyStr(<<"2", "0", "2", "3">>)

Txt008 == PyStr(<<"2", "3", "0", "5", "0", "1", "a", "b", "c", "d", "e", "f">>)

Txt008Short == PyStr(<<"2", "3", "0", "5">>)

Txt008Five == PyStr(<<"2", "3", "5", "1", "1">>)

Txt008Old == PyStr(<<"9", "9", "1", "2", "3", "1", "s", "1", "9", "9", "9">>)

Txt008NoSuchDay == PyStr(<<"2", "3", "0", "2", "2", "9">>)

Txt008LeadingBlank == PyStr(<<" ", "3", "0", "5", "0", "1">>)

Txt008BlankDay == PyStr(<<"2", "3", "1", "2", " ", "1">>)

Txt008Letters == PyStr(<<"a", "b", "0", "5", "0", "1">>)

\* The values a document can hold under each key.  The object bound to
\* "fullrecord" is on the heap: the document holds a reference to it.
Refs == {1, 2}

ValuePool(k) ==
    CASE k = "first_indexed" -> {TxtIsoFirst}
      [] k = "fullrecord" -> {Ref(r) : r \in Refs}
      [] k = "hierarchy_parent_id" -> {PyList(<<PyStr(<<"p">>)>>)}
      [] k = "hierarchy_top_id" -> {PyList(<<PyStr(<<"t">>)>>)}
      [] k = "last_indexed" -> {TxtIsoUtc, TxtIsoOffset, TxtNotADate, TxtEmpty, PyList(<<TxtIsoUtc>>)}

\* Every document over Keys with values from the pools, and None
Absent == <<"absent", <<>>>>

Optional(k) == ValuePool(k) \cup {Absent}

MakeDoc(f) == PyDict([k \in {j \in Keys : f[j] # Absent} |-> f[k]])

AllDocs ==
    {NoneV} \cup
    {MakeDoc([k \in Keys |->
                 CASE k = "first_indexed" -> a
                   [] k = "fullrecord" -> b
                   [] k = "hierarchy_parent_id" -> c
                   [] k = "hierarchy_top_id" -> d
                   [] k = "last_indexed" -> e]) :
        a \in Optional("first_indexed"), b \in Optional("fullrecord"),
        c \in Optional("hierarchy_parent_id"), d \in Optional("hierarchy_top_id"),
        e \in Optional("last_indexed")}

\* The fullrecord of the specification's example, and one that is a list
FullrecordExample ==
    PyDict([fields |-> PyList(<<PyDict("008" :> Txt008), PyDict("005" :> Txt005)>>)])

FullrecordOther ==
    PyDict([fields |-> PyList(<<PyDict("001" :> Txt008Old), PyDict("005" :> Txt005Other),
                                PyDict("008" :> Txt008Old)>>)])

FullrecordList == PyList(<<PyDict("005" :> Txt005)>>)

ExampleHeap == (1 :> FullrecordExample) @@ (2 :> FullrecordList)

\* The values of the control fields: texts and other values
Values005 == {Txt005, Txt005Other, Txt005Short, PyInt(5), NoneV}

Values008 == {Txt008, Txt008Short, Txt008Five, Txt008Old, Txt008NoSuchDay, Txt008LeadingBlank,
              Txt008BlankDay, Txt008Letters, TxtEmpty, PyInt(8), PyList(<<Txt008>>)}

\* The elements the "fields" sequences are built from: dicts with control
\* fields, and elements that are no dicts
ElementPool ==
    {PyDict("001" :> Txt008Short),
     PyDict("005" :> Txt005), PyDict("005" :> Txt005Other), PyDict("005" :> PyInt(5)),
     PyDict("008" :> Txt008), PyDict("008" :> Txt008Short), PyDict("008" :> PyList(<<Txt008>>)),
     PyDict(("005" :> Txt005Other) @@ ("008" :> Txt008Old)),
     PyInt(7), PyStr(TagChars["005"])}

\* The longest "fields" sequence built from ElementPool
MaxFields == 2

SeqsUpTo(S, n) == UNION {[1..m -> S] : m \in 0..n}

\* The values of "fields": the sequences over ElementPool, a sequence of one
\* element for every control field value, and values that are no sequences
\* of dicts
FieldsPool ==
    {PyList(s) : s \in SeqsUpTo(ElementPool, MaxFields)}
    \cup {PyList(<<PyDict("005" :> v)>>) : v \in Values005}
    \cup {PyList(<<PyDict("008" :> v)>>) : v \in Values008}
    \cup {PyList(<<NoneV>>), PyList(<<PyList(<<PyStr(TagChars["008"])>>)>>)}
    \cup {NoneV, PyInt(5), PyStr(TagChars["005"]), PyStr(TagChars["leader"]),
          PyDict("005" :> Txt005), PyDict("001" :> Txt005)}

FullrecordPool ==
    {PyDict([fields |-> f]) : f \in FieldsPool}
    \cup {EmptyDict, PyDict([leader |-> Txt008]), FullrecordList, Txt005, PyInt(5)}

----------------------------------------------------------------------------
(* State.  doc is the caller's document and heap the objects it can bind   *)
(* to "fullrecord".  raw, fields and marc are the attributes of the        *)
(* VuFindParser, marc.fullrecord the attribute of its VuFindMarcParser.    *)
(* pc is "new" before VuFindParser(doc, marc) is called, "ready" when it   *)
(* has returned and "failed" when it has raised.  argMarc and doc0 record  *)
(* the constructor's arguments (doc0 the document's content at the call),  *)
(* event the last step and its result, mutations the number of changes the *)
(* caller has made to the document since.                                  *)

Unset == <<"unset", <<>>>>

\* The reference to the caller's document
DocRef == Ref(0)

\* The object a reference refers to now
Deref(x) ==
    IF x = DocRef THEN doc
    ELSE IF Tag(x) = "ref" THEN heap[Val(x)]
    ELSE x

Event(op, arg, result) == [op |-> op, arg |-> arg, result |-> result]

InitCommon ==
    /\ pc = "new"
    /\ argMarc = FALSE
    /\ doc0 = Unset
    /\ raw = Unset
    /\ fields = <<>>
    /\ marc = Unset
    /\ event = Event("none", "", NoneV)
    /\ mutations = 0

\* VuFindMarcParser.__init__(doc): the new object, or the exception raised
\* ("fullrecord" in None is a TypeError)
VuFindMarcParser(d) ==
    IF Tag(d) = "none" THEN Raise("TypeError")
    ELSE <<"marc",
           [fullrecord |-> IF "fullrecord" \in DOMAIN Val(d) THEN Val(d)["fullrecord"] ELSE NoneV]>>

\* self.marc when __init__ asks for a truthy document before it builds the
\* VuFindMarcParser (a variant the rule for marc must tell from the code)
MarcAttributeMutTruthy(d, m) ==
    IF m /\ Truthy(d) THEN VuFindMarcParser(d) ELSE NoneV

\* self.marc after VuFindParser.__init__(doc, marc): None, set in line 22,
\* unless marc is requested and VuFindMarcParser(doc) returns
MarcAttribute(d, m) ==
    IF m /\ ~IsRaise(VuFindMarcParser(d)) THEN VuFindMarcParser(d) ELSE NoneV

\* VuFindParser.__init__(doc, marc)
Construct(m) ==
    /\ pc = "new"
    /\ argMarc' = m
    /\ doc0' = doc
    /\ raw' = IF Tag(doc) = "none" THEN NoneV ELSE DocRef
    /\ fields' = _names(doc)
    /\ marc' = MarcAttribute(doc, m)
    /\ IF m /\ IsRaise(VuFindMarcParser(doc))
       THEN pc' = "failed" /\ event' = Event("construct", "", VuFindMarcParser(doc))
       ELSE pc' = "ready" /\ event' = Event("construct", "", NoneV)
    /\ UNCHANGED <<doc, heap, mutations>>

New == \E m \in BOOLEAN : Construct(m)

\* What an accessor leaves alone
AccessFrame == UNCHANGED <<doc, heap, pc, argMarc, doc0, raw, fields, marc, mutations>>

\* get that takes the value out of the document, raw.pop(name) for
\* raw[name] (a variant the read-only rule must tell from the code)
GetMutPop ==
    /\ pc = "ready"
    /\ Tag(doc) = "dict"
    /\ \E name \in DOMAIN Val(doc) :
          /\ event' = Event("get", name, Val(doc)[name])
          /\ doc' = PyDict([j \in DOMAIN Val(doc) \ {name} |-> Val(doc)[j]])
    /\ UNCHANGED <<heap, pc, argMarc, doc0, raw, fields, marc, mutations>>

\* accessor.get(name)
Get ==
    /\ pc = "ready"
    /\ \E name \in Keys : event' = Event("get", name, get(Deref(raw), name))
    /\ AccessFrame

\* accessor.<p> for a named property p
NamedProperty ==
    /\ pc = "ready"
    /\ \E p \in Props : event' = Event("property", p, Property(Deref(raw), p))
    /\ AccessFrame

\* accessor.first_indexed_datetime
FirstIndexedDatetime ==
    /\ pc = "ready"
    /\ event' = Event("first_indexed_datetime", "", first_indexed_datetime(Deref(raw)))
    /\ AccessFrame

\* accessor.last_indexed_datetime
LastIndexedDatetime ==
    /\ pc = "ready"
    /\ event' = Event("last_indexed_datetime", "", last_indexed_datetime(Deref(raw)))
    /\ AccessFrame

\* The passthrough over a copy of the fullrecord taken at construction (a
\* variant the no-caching rule must tell from the code)
MarcPassthroughValueMutCached(op) ==
    IF Tag(marc) # "none"
    THEN MarcProperty(op, IF Tag(Val(marc).fullrecord) = "ref"
                          THEN ExampleHeap[Val(Val(marc).fullrecord)]
                          ELSE Val(marc).fullrecord)
    ELSE NoneV

\* VuFindParser.marc_<op>: the property of self.marc when there is one
MarcPassthroughValue(op) ==
    IF Tag(marc) # "none" THEN MarcProperty(op, Deref(Val(marc).fullrecord)) ELSE NoneV

\* accessor.marc_latest_transaction, ..., accessor.marc_date_entered_iso
MarcPassthrough ==
    /\ pc = "ready"
    /\ \E op \in MarcOps : event' = Event("marc", op, MarcPassthroughValue(op))
    /\ AccessFrame

----------------------------------------------------------------------------
(* The caller's changes to the document after construction *)

\* The number of changes the caller makes
MaxMutations == 2

\* doc[k] = v
SetKey ==
    /\ pc = "ready" /\ mutations < MaxMutations
    /\ Tag(doc) = "dict"
    /\ \E k \in Keys : \E v \in ValuePool(k) :
          /\ IF k \in DOMAIN Val(doc) THEN Val(doc)[k] # v ELSE TRUE
          /\ doc' = PyDict([j \in DOMAIN Val(doc) \cup {k} |-> IF j = k THEN v ELSE Val(doc)[j]])
          /\ event' = Event("setkey", k, NoneV)
    /\ mutations' = mutations + 1
    /\ UNCHANGED <<heap, pc, argMarc, doc0, raw, fields, marc>>

\* del doc[k]
DelKey ==
    /\ pc = "ready" /\ mutations < MaxMutations
    /\ Tag(doc) = "dict"
    /\ \E k \in DOMAIN Val(doc) :
          /\ doc' = PyDict([j \in DOMAIN Val(doc) \ {k} |-> Val(doc)[j]])
          /\ event' = Event("delkey", k, NoneV)
    /\ mutations' = mutations + 1
    /\ UNCHANGED <<heap, pc, argMarc, doc0, raw, fields, marc>>

\* A change in place of the dict a reference refers to (its "fields" list
\* replaced or changed)
InPlacePool == {FullrecordExample, FullrecordOther, PyDict([leader |-> Txt008])}

ChangeInPlace ==
    /\ pc = "ready" /\ mutations < MaxMutations
    /\ \E r \in Refs : \E c \in InPlacePool :
          /\ Tag(heap[r]) = "dict" /\ heap[r] # c
          /\ heap' = [heap EXCEPT ![r] = c]
          /\ event' = Event("inplace", "", NoneV)
    /\ mutations' = mutations + 1
    /\ UNCHANGED <<doc, pc, argMarc, doc0, raw, fields, marc>>

----------------------------------------------------------------------------
(* Spec: a document that the caller goes on changing while it is read.     *)

StartDocs ==
    {NoneV, EmptyDict,
     PyDict(("fullrecord" :> Ref(1)) @@ ("last_indexed" :> TxtIsoUtc)),
     PyDict(("hierarchy_top_id" :> PyList(<<PyStr(<<"t">>)>>)) @@ ("last_indexed" :> TxtNotADate)
            @@ ("first_indexed" :> TxtIsoFirst))}

Init ==
    /\ doc \in StartDocs
    /\ heap = ExampleHeap
    /\ InitCommon

Next ==
    \/ New
    \/ Get
    \/ NamedProperty
    \/ FirstIndexedDatetime
    \/ LastIndexedDatetime
    \/ MarcPassthrough
    \/ SetKey
    \/ DelKey
    \/ ChangeInPlace

Spec == Init /\ [][Next]_vars

(* SpecRead: every document of the pools, and every fullrecord of the      *)
(* pool under a document that holds nothing else; the document is left     *)
(* alone after construction.                                               *)

InitRead ==
    /\ \/ doc \in AllDocs /\ heap = ExampleHeap
       \/ /\ doc = PyDict("fullrecord" :> Ref(1))
          /\ heap \in {(1 :> fr) @@ (2 :> FullrecordList) : fr \in FullrecordPool}
    /\ InitCommon

NextRead ==
    \/ New
    \/ Get
    \/ NamedProperty
    \/ FirstIndexedDatetime
    \/ LastIndexedDatetime
    \/ MarcPassthrough

SpecRead == InitRead /\ [][NextRead]_vars

----------------------------------------------------------------------------
(* The properties stated of the accessors.  event is the last step and its *)
(* result, so a property of an operation is an invariant over the states   *)
(* in which event records that operation.                                  *)

\* The keys of a document (None has none)
DocKeys(d) == IF Tag(d) = "dict" THEN DOMAIN Val(d) ELSE {}

\* d[k], None when d lacks k
Lookup(d, k) == IF k \in DocKeys(d) THEN Val(d)[k] ELSE NoneV

\* The object the document binds to "fullrecord" now, and the object it
\* bound to it when the accessor was constructed, both as they are now
BoundNow == IF "fullrecord" \in DocKeys(doc) THEN heap[Val(Val(doc)["fullrecord"])] ELSE NoneV

BoundAtConstruction ==
    IF "fullrecord" \in DocKeys(doc0) THEN heap[Val(Val(doc0)["fullrecord"])] ELSE NoneV

\* The last step was a MARC passthrough of an accessor that has a MARC parser
MarcAccess == event.op = "marc" /\ Tag(marc) = "marc"

\* The operations that read
AccessOps == {"get", "property", "first_indexed_datetime", "last_indexed_datetime", "marc"}

\* A fullrecord that is a dict whose "fields" is a list of dicts
ListOfDicts(fr) ==
    /\ Tag(fr) = "dict"
    /\ "fields" \in DOMAIN Val(fr)
    /\ Tag(Val(fr)["fields"]) = "list"
    /\ \A i \in 1..Len(Val(Val(fr)["fields"])) : Tag(Val(Val(fr)["fields"])[i]) = "dict"

\* ... whose values under "005" and "008" are texts
TextControlFields(fr) ==
    \A i \in 1..Len(Val(Val(fr)["fields"])) :
        \A tag \in {"005", "008"} \cap DOMAIN Val(Val(Val(fr)["fields"])[i]) :
            Tag(Val(Val(Val(fr)["fields"])[i])[tag]) = "str"

\* The position of the first dict of elems that has the key tag, 0 when none has
FirstWith(elems, tag) ==
    LET has == {i \in 1..Len(elems) : tag \in DOMAIN Val(elems[i])}
    IN IF has = {} THEN 0 ELSE CHOOSE i \in has : \A j \in has : i <= j

\* The value under tag of the first dict of fr's "fields" that has it
FirstValue(fr, tag) ==
    Val(Val(Val(fr)["fields"])[FirstWith(Val(Val(fr)["fields"]), tag)])[tag]

HasValue(fr, tag) == ListOfDicts(fr) /\ FirstWith(Val(Val(fr)["fields"]), tag) # 0

\* The first six characters of a text, all of it when it is shorter
FirstSix(v) == [i \in 1..(IF Len(v) < 6 THEN Len(v) ELSE 6) |-> v[i]]

\* The date a text s of at most six characters stands for as yymmdd: six
\* characters with no blank at either end, two digits of year (00-68 in
\* 20yy, 69-99 in 19yy), two of month, and a day of two digits or of a blank
\* and a digit, that is a day of the calendar; None otherwise
YymmddYear(s) ==
    IF 10 * DigitVal[s[1]] + DigitVal[s[2]] <= 68
    THEN 2000 + 10 * DigitVal[s[1]] + DigitVal[s[2]]
    ELSE 1900 + 10 * DigitVal[s[1]] + DigitVal[s[2]]

YymmddMonth(s) == 10 * DigitVal[s[3]] + DigitVal[s[4]]

YymmddDay(s) == (IF s[5] = " " THEN 0 ELSE 10 * DigitVal[s[5]]) + DigitVal[s[6]]

YymmddOk(s) ==
    /\ Len(s) = 6
    /\ s[1] \notin Whitespace /\ s[6] \notin Whitespace
    /\ \A i \in {1, 2, 3, 4, 6} : s[i] \in Digits
    /\ s[5] \in Digits \cup {" "}
    /\ YymmddMonth(s) \in 1..12
    /\ YymmddDay(s) >= 1
    /\ YymmddDay(s) <= (IF YymmddMonth(s) = 2
                        THEN (IF YymmddYear(s) % 4 = 0 /\ (YymmddYear(s) % 100 # 0 \/ YymmddYear(s) % 400 = 0)
                              THEN 29 ELSE 28)
                        ELSE IF YymmddMonth(s) \in {4, 6, 9, 11} THEN 30 ELSE 31)

YymmddDate(s) ==
    IF YymmddOk(s) THEN Date(YymmddYear(s), YymmddMonth(s), YymmddDay(s)) ELSE NoneV

\* ... and its ISO text YYYY-MM-DD
YymmddIso(s) ==
    IF YymmddOk(s)
    THEN PyStr((IF YymmddYear(s) >= 2000 THEN <<"2", "0">> ELSE <<"1", "9">>)
               \o <<s[1], s[2], "-", s[3], s[4], "-", IF s[5] = " " THEN "0" ELSE s[5], s[6]>>)
    ELSE NoneV

\* The keys of the model in the order of their code points
KeyOrder == <<"first_indexed", "fullrecord", "hierarchy_parent_id", "hierarchy_top_id", "last_indexed">>

----------------------------------------------------------------------------
\* C1: constructing a VuFindParser never fails, whatever the document and
\* the MARC flag; for an absent document with MARC parsing requested the
\* construction completes with fields empty and marc absent.
\* (Violated: VuFindParser(None, marc=True) raises TypeError.)
C1_ConstructionNeverFails ==
    pc # "new" => (pc = "ready" /\ (doc0 = NoneV => (fields = <<>> /\ marc = NoneV)))

\* C1, the failing call: the document is None, MARC parsing is requested and
\* the constructor has raised TypeError
C1_Failed ==
    pc = "failed" /\ doc0 = NoneV /\ argMarc /\ event.result = Raise("TypeError")

\* C2: with MARC parsing requested, for every fullrecord that is not a dict
\* {"fields": [dict, ...]} with texts under "005"/"008", each of the six MARC
\* properties is None and none raises.
\* (Violated: e.g. "fields" bound to 5 raises TypeError, an int under "005"
\* is returned by latest_transaction.)
C2_IllShapedYieldsAbsent ==
    (MarcAccess /\ ~(ListOfDicts(BoundAtConstruction) /\ TextControlFields(BoundAtConstruction)))
        => event.result = NoneV

\* C2, a failing access: "fields" is no list of dicts and a MARC property raises
C2_IllShapedRaises ==
    MarcAccess /\ ~ListOfDicts(BoundAtConstruction) /\ IsRaise(event.result)

\* C3: for every document d and key k that d lacks, get(k) and the named
\* property of k are None, whatever other keys d has.
\* (Violated: hierarchy_parent_id returns the value of hierarchy_top_id.)
C3_MissingKeyAbsent ==
    (event.op \in {"get", "property"} /\ event.arg \notin DocKeys(doc)) => event.result = NoneV

\* C3, the failing access: the document lacks hierarchy_parent_id and the
\* property of that name is not None
C3_ParentFromTop ==
    /\ event.op = "property" /\ event.arg = "hierarchy_parent_id"
    /\ "hierarchy_parent_id" \notin DocKeys(doc)
    /\ event.result # NoneV

\* C4 as stated: whenever the document has last_indexed, last_indexed_datetime
\* and first_indexed_datetime return the parsed timestamp or raise the parse
\* error; the result is None only when last_indexed is missing.
\* (Violated: last_indexed = "" is present and the result is None.)
C4_AbsentOnlyWhenMissing ==
    (event.op \in {"last_indexed_datetime", "first_indexed_datetime"}
     /\ "last_indexed" \in DocKeys(doc))
        => event.result # NoneV

\* C4, amended: last_indexed_datetime and first_indexed_datetime (which reads
\* last_indexed too) are None exactly when last_indexed is missing or falsy
\* (the empty text); for a non-empty text they are the parsed timestamp when
\* it is valid ISO-8601 and raise ValueError when it is not; a truthy value
\* that is no text raises.
C4_IndexTimestamp ==
    event.op \in {"last_indexed_datetime", "first_indexed_datetime"} =>
        LET ts == Lookup(doc, "last_indexed")
        IN /\ (event.result = NoneV) <=> (ts = NoneV \/ ts = TxtEmpty)
           /\ ts = TxtIsoUtc => event.result = DateTime(2023, 5, 1, 12, 0, 0, 0, UTC)
           /\ ts = TxtIsoOffset => event.result = DateTime(2023, 5, 1, 14, 0, 0, 500000, TzOffset(120))
           /\ ts = TxtNotADate => event.result = Raise("ValueError")
           /\ Tag(ts) \notin {"none", "str"} => IsRaise(event.result)

\* C4, where the amendment differs: last_indexed is the empty text and the
\* result is None
C4_EmptyText ==
    /\ event.op = "last_indexed_datetime"
    /\ "last_indexed" \in DocKeys(doc) /\ Val(doc)["last_indexed"] = TxtEmpty
    /\ event.result = NoneV

\* C5: after construction fields is the sorted sequence of the keys the
\* document had when the accessor was constructed (empty for an empty or
\* absent document), and stays so after any accesses and any later addition
\* or removal of keys.
C5_FieldsSnapshot ==
    pc = "ready" => fields = SelectSeq(KeyOrder, LAMBDA k : k \in DocKeys(doc0))

\* C5, its case: an access after the caller changed the keys of a document
\* that had two of them or more
C5_AfterKeyChange ==
    /\ pc = "ready" /\ mutations > 0 /\ event.op \in AccessOps
    /\ DocKeys(doc) # DocKeys(doc0)
    /\ Len(fields) >= 2

\* C6 as stated: every MARC passthrough returns what the current content of
\* the document determines, also after the value bound to "fullrecord" has
\* been replaced.
\* (Violated: the MARC parser keeps the object bound at construction.)
C6_MarcReflectsCurrentBinding ==
    MarcAccess => event.result = MarcProperty(event.arg, BoundNow)

\* C6, amended: get and the named properties return what the document holds
\* at the time of the access; the MARC passthroughs return what the object
\* bound to "fullrecord" at construction holds at the time of the access:
\* its changes in place show, a later rebinding or removal of the key does
\* not.
C6_NoCaching ==
    /\ event.op = "get" => event.result = Lookup(doc, event.arg)
    /\ event.op = "property" => event.result = Lookup(doc, PropKey(event.arg))
    /\ MarcAccess => event.result = MarcProperty(event.arg, BoundAtConstruction)

\* C6, where the amendment differs: a MARC passthrough with a result after
\* the document's "fullrecord" was rebound to another object
C6_AfterRebinding ==
    /\ MarcAccess
    /\ "fullrecord" \in DocKeys(doc) /\ "fullrecord" \in DocKeys(doc0)
    /\ Val(doc)["fullrecord"] # Val(doc0)["fullrecord"]
    /\ event.result # NoneV

C8_AccessChangesNothing ==
    [][event'.op \in AccessOps => UNCHANGED <<doc, heap, raw, fields, marc>>]_vars

\* C8, its case: an access that ended in a parse error
C8_AfterParseError ==
    /\ pc = "ready" /\ event.op = "last_indexed_datetime" /\ IsRaise(event.result)
    /\ mutations = 0 /\ doc = doc0

\* C9: for a fullrecord whose "fields" is a list of dicts, latest_transaction
\* is the "005" value of the first dict that has "005" and date_entered the
\* first six characters of the "008" text of the first dict that has "008";
\* later dicts with the key are ignored, dicts without it skipped, and the
\* result is None when no dict has the key.
C9_FirstMatch ==
    (MarcAccess /\ ListOfDicts(BoundAtConstruction)) =>
        /\ event.arg = "latest_transaction" =>
              event.result = IF HasValue(BoundAtConstruction, "005")
                             THEN FirstValue(BoundAtConstruction, "005") ELSE NoneV
        /\ (event.arg = "date_entered" /\ ~HasValue(BoundAtConstruction, "008")) =>
              event.result = NoneV
        /\ (event.arg = "date_entered" /\ HasValue(BoundAtConstruction, "008")
            /\ Tag(FirstValue(BoundAtConstruction, "008")) = "str") =>
              event.result = PyStr(FirstSix(Val(FirstValue(BoundAtConstruction, "008"))))

\* C9, its case: the first dict lacks "005", the second has it, and
\* latest_transaction is the second's value
C9_SkipsToSecond ==
    /\ MarcAccess /\ ListOfDicts(BoundAtConstruction) /\ event.arg = "latest_transaction"
    /\ Len(Val(Val(BoundAtConstruction)["fields"])) = 2
    /\ FirstWith(Val(Val(BoundAtConstruction)["fields"]), "005") = 2
    /\ event.result = Txt005

\* C10: for every text v under "008", date_entered is v cut to at most six
\* characters; date_entered_date is None when date_entered stripped of
\* surrounding whitespace is not six characters long or is no yymmdd date,
\* and that date otherwise; date_entered_iso is present exactly when
\* date_entered_date is (the date as YYYY-MM-DD); none of the three raises.
C10_DateEntered ==
    (MarcAccess /\ HasValue(BoundAtConstruction, "008")
     /\ Tag(FirstValue(BoundAtConstruction, "008")) = "str") =>
        LET s == FirstSix(Val(FirstValue(BoundAtConstruction, "008")))
        IN /\ event.arg = "date_entered" => event.result = PyStr(s)
           /\ event.arg = "date_entered_date" => event.result = YymmddDate(s)
           /\ event.arg = "date_entered_iso" => event.result = YymmddIso(s)

\* C10, its case: five characters that strptime would take for a date
\* ("23511") fail the length check, and date_entered_date is None
C10_FiveCharacters ==
    /\ MarcAccess /\ HasValue(BoundAtConstruction, "008")
    /\ FirstValue(BoundAtConstruction, "008") = Txt008Five
    /\ event.arg = "date_entered_date"
    /\ event.result = NoneV

====
